---- MODULE Spec2Model ----
(***************************************************************************)
(* wslpath: translation of file paths between the Windows and the Unix     *)
(* format (main.go).  A path is a sequence of one-character strings.       *)
(***************************************************************************)
EXTENDS Integers, Sequences, FiniteSets

VARIABLES pc, f, t, s, x, env, fs, out, out2, res, back,
          volume, path, elems,
          toWinFlag, toNixFlag, svNumFlag, lines, scanned, local,
          stdout, stderr, exitCode, status

(* the results of SplitVolume and of Elements *)
parts == <<volume, path, elems>>

(* the flags, the input, the locals of the loop and the outputs of main *)
cli == <<toWinFlag, toNixFlag, svNumFlag, lines, scanned, local,
         stdout, stderr, exitCode, status>>

vars == <<pc, f, t, s, x, env, fs, out, out2, res, back, parts, cli>>

----------------------------------------------------------------------------
(* Format enumeration, main.go:18-58 *)
Windows == "Windows"
Unix == "Unix"
Any == "Any"
Formats == {Windows, Unix, Any}

BSL == "\\"
FSL == "/"

(* environment variable names, main.go:60-73 *)
NixPathEnvSuffix == <<"_", "V", "O", "L", "U", "M", "E", "_", "P", "A", "T", "H">>
WslRootfsEnvVar == <<"W", "S", "L", "_", "R", "O", "O", "T", "F", "S", "_", "P", "A", "T", "H">>
UncPathEnvVar == <<"W", "S", "L", "_", "U", "N", "C", "_", "P", "A", "T", "H">>

----------------------------------------------------------------------------
(* Library string functions the program calls (package strings). *)

LowerLetters == <<"a", "b", "c", "d", "e", "f", "g", "h", "i", "j", "k", "l", "m",
                  "n", "o", "p", "q", "r", "s", "t", "u", "v", "w", "x", "y", "z">>
UpperLetters == <<"A", "B", "C", "D", "E", "F", "G", "H", "I", "J", "K", "L", "M",
                  "N", "O", "P", "Q", "R", "S", "T", "U", "V", "W", "X", "Y", "Z">>

IsLower(c) == \E i \in 1..Len(LowerLetters) : LowerLetters[i] = c
IsUpper(c) == \E i \in 1..Len(UpperLetters) : UpperLetters[i] = c

(* ('a' <= d && d <= 'z') || ('A' <= d && d <= 'Z') *)
IsLetter(c) == IsLower(c) \/ IsUpper(c)

ToUpperChar(c) ==
    IF IsLower(c)
    THEN UpperLetters[CHOOSE i \in 1..Len(LowerLetters) : LowerLetters[i] = c]
    ELSE c

ToUpper(str) == [i \in 1..Len(str) |-> ToUpperChar(str[i])]

(* str[lo:hi] of Go: characters lo .. hi-1, counted from 0 *)
Slice(str, lo, hi) == SubSeq(str, lo + 1, hi)

HasPrefix(str, p) == Len(p) <= Len(str) /\ SubSeq(str, 1, Len(p)) = p

HasSuffix(str, p) ==
    Len(p) <= Len(str) /\ SubSeq(str, Len(str) - Len(p) + 1, Len(str)) = p

(* index (from 0) of the first occurrence of old in str at or after i, or -1 *)
RECURSIVE IndexFrom(_, _, _)
IndexFrom(str, old, i) ==
    IF i + Len(old) > Len(str) THEN -1
    ELSE IF SubSeq(str, i + 1, i + Len(old)) = old THEN i
    ELSE IndexFrom(str, old, i + 1)

Index(str, old) == IndexFrom(str, old, 0)

(* strings.ReplaceAll for a non-empty old: non-overlapping, left to right; *)
(* n is the index of the next occurrence                                   *)
RECURSIVE ReplaceAll(_, _, _)
RECURSIVE ReplaceAllAt(_, _, _, _)
ReplaceAllAt(str, old, new, n) ==
    IF n = -1 THEN str
    ELSE Slice(str, 0, n) \o new
         \o ReplaceAll(Slice(str, n + Len(old), Len(str)), old, new)

ReplaceAll(str, old, new) == ReplaceAllAt(str, old, new, Index(str, old))

(* strings.Replace(str, old, new, 1) *)
ReplaceFirstAt(str, old, new, n) ==
    IF n = -1 THEN str
    ELSE Slice(str, 0, n) \o new \o Slice(str, n + Len(old), Len(str))

ReplaceFirst(str, old, new) == ReplaceFirstAt(str, old, new, Index(str, old))

(* strings.Split(str, sep) for a one-character sep *)
RECURSIVE Split(_, _)
RECURSIVE SplitAt(_, _, _)
SplitAt(str, c, n) ==
    IF n = -1 THEN <<str>>
    ELSE <<Slice(str, 0, n)>> \o Split(Slice(str, n + 1, Len(str)), c)

Split(str, c) == SplitAt(str, c, Index(str, <<c>>))

(* strings.SplitN(str, sep, 2) *)
SplitN2At(str, n) ==
    IF n = -1 THEN <<str>>
    ELSE <<Slice(str, 0, n), Slice(str, n + 1, Len(str))>>

SplitN2(str, c) == SplitN2At(str, Index(str, <<c>>))

(* strings.Join *)
RECURSIVE Join(_, _)
Join(e, c) ==
    IF Len(e) = 0 THEN <<>>
    ELSE IF Len(e) = 1 THEN e[1]
    ELSE e[1] \o <<c>> \o Join(Tail(e), c)

----------------------------------------------------------------------------
(* Path grammar *)

issep(fmt, c) ==
    CASE fmt = Windows -> c = BSL
      [] fmt = Unix -> c = FSL
      [] fmt = Any -> c = FSL \/ c = BSL
      [] OTHER -> FALSE

sep(fmt) == IF fmt = Windows THEN BSL ELSE FSL

(* return s[:n], s[n:] *)
CutAt(str, n) == <<Slice(str, 0, n), Slice(str, n, Len(str))>>

(* the share name taken to run to the end of the path *)
ShareToEnd(str, n) == Len(str)

(* the inner loop of SplitVolume: n runs to the end of the share name *)
RECURSIVE ShareEnd(_, _)
ShareEnd(str, n) ==
    IF n < Len(str) /\ str[n + 1] # BSL THEN ShareEnd(str, n + 1) ELSE n

(* the outer loop of SplitVolume walking over the host name from index n *)
RECURSIVE HostScan(_, _)
HostScan(str, n) ==
    IF ~(n < Len(str) - 1) THEN <<<<>>, str>>
    ELSE IF str[n + 1] = BSL
         THEN IF str[n + 2] # BSL
              THEN IF str[n + 2] = "."
                   THEN <<<<>>, str>>
                   ELSE CutAt(str, ShareEnd(str, n + 1))
              ELSE <<<<>>, str>>
         ELSE HostScan(str, n + 1)

SplitVolume(fmt, str) ==
    IF fmt # Windows THEN <<<<>>, str>>
    ELSE IF Len(str) < 2 THEN <<<<>>, str>>
    ELSE IF str[2] = ":" /\ IsLetter(str[1]) THEN CutAt(str, 2)
    ELSE IF Len(str) < 5 THEN <<<<>>, str>>
    ELSE IF Slice(str, 0, 2) = <<BSL, BSL>> /\ str[3] # BSL /\ str[3] # "."
         THEN HostScan(str, 3)
    ELSE <<<<>>, str>>

(* Elements: e is the slice built so far, b the strings.Builder *)
RECURSIVE ElementsFrom(_, _, _, _, _)
ElementsFrom(fmt, str, i, e, b) ==
    IF i > Len(str)
    THEN IF Len(b) > 0 THEN Append(e, b) ELSE e
    ELSE IF issep(fmt, str[i])
         THEN ElementsFrom(fmt, str, i + 1, Append(e, b), <<>>)
         ELSE ElementsFrom(fmt, str, i + 1, e, Append(b, str[i]))

Elements(fmt, str) == ElementsFrom(fmt, str, 1, <<>>, <<>>)

(* one replacement of the doubled separator, not repeated *)
CollapseOnce(str, u) == ReplaceAll(str, <<u, u>>, <<u>>)

(* for n := 0; n != len(s); { n = len(s); s = ReplaceAll(s, d, u) }:       *)
(* r is s after the replacement                                            *)
RECURSIVE CollapseSeparators(_, _)
RECURSIVE CollapseAgain(_, _, _)
CollapseAgain(str, u, r) ==
    IF Len(r) = Len(str) THEN r ELSE CollapseSeparators(r, u)

CollapseSeparators(str, u) == CollapseAgain(str, u, ReplaceAll(str, <<u, u>>, <<u>>))

DOT == <<".">>
DOTDOT == <<".", ".">>

RemoveDots(e) == SelectSeq(e, LAMBDA u : u # DOT)

(* one pass of the ".." loop of Clean over p from index i (from 0):        *)
(* returns <<q, done>>                                                      *)
RECURSIVE ParentPass(_, _, _, _, _)
ParentPass(p, i, q, done, skip) ==
    IF i >= Len(p) THEN <<q, done>>
    ELSE IF ~skip
         THEN IF (i + 1 < Len(p)) /\ (p[i + 1] # DOTDOT) /\ (p[i + 2] = DOTDOT)
              THEN IF (i = 0) /\ (p[i + 1] = <<>>)
                   THEN ParentPass(p, i + 1, Append(q, p[i + 1]), FALSE, TRUE)
                   ELSE ParentPass(p, i + 1, q, FALSE, TRUE)
              ELSE ParentPass(p, i + 1, Append(q, p[i + 1]), done, FALSE)
         ELSE ParentPass(p, i + 1, q, done, FALSE)

(* a single pass, not repeated until nothing changes *)
RemoveParentsOnce(p) == ParentPass(p, 0, <<>>, TRUE, FALSE)[1]

(* the ".." loop of Clean: r is <<q, done>> of the pass just made *)
RECURSIVE RemoveParents(_)
RECURSIVE RemoveParentsAgain(_)
RemoveParentsAgain(r) == IF r[2] THEN r[1] ELSE RemoveParents(r[1])

RemoveParents(p) == RemoveParentsAgain(ParentPass(p, 0, <<>>, TRUE, FALSE))

(* main.go:397-406: the volume and the elements left are put together *)
CleanJoin(fmt, vol, p) ==
    IF Len(p) = 0 THEN vol \o DOT
    ELSE IF Len(p) = 1 /\ p[1] = <<>> THEN vol \o <<sep(fmt)>>
    ELSE vol \o Join(p, sep(fmt))

(* main.go:339-406 on sv = <<volume, remainder>> *)
CleanSplit(fmt, sv) ==
    IF Len(sv[2]) = 0 THEN sv[1] \o DOT
    ELSE CleanJoin(fmt, sv[1],
             RemoveParents(RemoveDots(
                 Elements(fmt, CollapseSeparators(sv[2], sep(fmt))))))

Clean(fmt, str) == CleanSplit(fmt, SplitVolume(fmt, str))

----------------------------------------------------------------------------
(* The process environment and the file system                             *)
(*                                                                         *)
(* env is the list os.Environ() walks: pairs <<name, value>> in            *)
(* enumeration order, a name occurring at most once.  fs is a file system  *)
(* without symbolic links: the set of absolute paths that exist, and the   *)
(* working directory.                                                      *)

(* a lookup that does not tell an unset variable from an empty one *)
GetenvOnly(e, name) ==
    IF \E i \in 1..Len(e) : e[i][1] = name
    THEN <<e[CHOOSE i \in 1..Len(e) : e[i][1] = name][2], TRUE>>
    ELSE <<<<>>, TRUE>>

LookupEnv(e, name) ==
    IF \E i \in 1..Len(e) : e[i][1] = name
    THEN <<e[CHOOSE i \in 1..Len(e) : e[i][1] = name][2], TRUE>>
    ELSE <<<<>>, FALSE>>

Environ(e) == [i \in 1..Len(e) |-> e[i][1] \o <<"=">> \o e[i][2]]

(* path.Clean of the Go library on a "/"-separated path: st is the stack   *)
(* of elements kept so far                                                 *)
RECURSIVE GoCleanFrom(_, _, _, _)
GoCleanFrom(e, i, rooted, st) ==
    IF i > Len(e) THEN st
    ELSE IF e[i] = <<>> \/ e[i] = DOT THEN GoCleanFrom(e, i + 1, rooted, st)
    ELSE IF e[i] = DOTDOT
         THEN IF Len(st) > 0 /\ st[Len(st)] # DOTDOT
              THEN GoCleanFrom(e, i + 1, rooted, SubSeq(st, 1, Len(st) - 1))
              ELSE IF rooted THEN GoCleanFrom(e, i + 1, rooted, st)
              ELSE GoCleanFrom(e, i + 1, rooted, Append(st, e[i]))
         ELSE GoCleanFrom(e, i + 1, rooted, Append(st, e[i]))

GoCleanJoin(rooted, st) ==
    IF rooted THEN <<FSL>> \o Join(st, FSL)
    ELSE IF Len(st) = 0 THEN DOT ELSE Join(st, FSL)

GoClean(str) ==
    IF Len(str) = 0 THEN DOT
    ELSE GoCleanJoin(str[1] = FSL,
                     GoCleanFrom(Split(str, FSL), 1, str[1] = FSL, <<>>))

(* filepath.Abs: a relative path is joined to the working directory *)
Abs(fsys, str) ==
    IF HasPrefix(str, <<FSL>>) THEN GoClean(str)
    ELSE GoClean(fsys.cwd \o <<FSL>> \o str)

(* the path a, absolute, exists or does not *)
Resolved(fsys, a) == IF a \in fsys.dirs THEN <<a, TRUE>> ELSE <<<<>>, FALSE>>

(* filepath.EvalSymlinks then filepath.Abs, main.go:568-569: <<as, ok>>.   *)
(* Without symbolic links EvalSymlinks returns the cleaned path when it    *)
(* exists and an error when it does not.                                   *)
Resolve(fsys, str) == Resolved(fsys, Abs(fsys, GoClean(str)))

(* the loop of abspath over the elements e of the path from index i *)
RECURSIVE abspathFrom(_, _, _, _, _, _)
RECURSIVE abspathEval(_, _, _, _, _, _, _)
RECURSIVE abspathNext(_, _, _, _, _, _, _, _)

(* main.go:570-574 on the results r of the resolution of t *)
abspathNext(fsys, fmt, e, i, act, rel, p, r) ==
    IF r[2] THEN abspathFrom(fsys, fmt, e, i + 1, r[1], rel)
    ELSE abspathFrom(fsys, fmt, e, i + 1, act, p)

(* main.go:563-569 *)
abspathEval(fsys, fmt, e, i, act, rel, p) ==
    abspathNext(fsys, fmt, e, i, act, rel, p,
        Resolve(fsys, (IF act # <<>> /\ act # <<sep(fmt)>>
                       THEN act \o <<sep(fmt)>> ELSE act) \o p))

abspathFrom(fsys, fmt, e, i, act, rel) ==
    IF i > Len(e) THEN <<act, rel>>
    ELSE IF act = <<>> /\ rel = <<>> /\ e[i] = <<>>
         THEN abspathEval(fsys, fmt, e, i, act, rel, <<sep(fmt)>>)
    ELSE IF rel # <<>>
         THEN abspathFrom(fsys, fmt, e, i + 1, act,
                  (IF rel # <<sep(fmt)>> THEN rel \o <<sep(fmt)>> ELSE rel) \o e[i])
    ELSE abspathEval(fsys, fmt, e, i, act, rel, e[i])

(* main.go:576-585 on ar = <<act, rel>> *)
abspathResult(fmt, ar) ==
    IF ar[1] # <<>>
    THEN IF ar[2] # <<>> THEN ar[1] \o <<sep(fmt)>> \o ar[2] ELSE ar[1]
    ELSE IF ar[2] # <<>> THEN ar[2] ELSE <<>>

abspath(fsys, fmt, str) ==
    abspathResult(fmt, abspathFrom(fsys, fmt, Split(str, sep(fmt)), 1, <<>>, <<>>))

----------------------------------------------------------------------------
(* Format translator *)

Nil == <<>>
Result(str, w, e) == [s |-> str, wsl |-> w, err |-> e]

(* return "", false, fmt.Errorf(msg, arg) *)
Failure(msg, arg) == Result(<<>>, FALSE, <<msg, arg>>)

(* main.go:447-455: the first entry of WSL_UNC_PATH whose key is the       *)
(* volume v, compared in upper case: <<mount point, found>>; m is the      *)
(* entry at i split at "="                                                 *)
RECURSIVE UncLookupFrom(_, _, _)
RECURSIVE UncLookupEntry(_, _, _, _)
UncLookupEntry(vms, i, v, m) ==
    IF Len(m) = 2 /\ ToUpper(m[1]) = ToUpper(v) THEN <<m[2], TRUE>>
    ELSE UncLookupFrom(vms, i + 1, v)

UncLookupFrom(vms, i, v) ==
    IF i > Len(vms) THEN <<<<>>, FALSE>>
    ELSE UncLookupEntry(vms, i, v, SplitN2(vms[i], "="))

UncLookup(up, v) == UncLookupFrom(Split(up, ";"), 1, v)

(* main.go:482-489: the entry of WSL_UNC_PATH whose mount point is the     *)
(* longest prefix of str: <<rk, rv, unc>>                                  *)
RECURSIVE UncLongestFrom(_, _, _, _, _, _)
RECURSIVE UncLongestEntry(_, _, _, _, _, _, _)
UncLongestEntry(vms, i, str, rk, rv, unc, m) ==
    IF Len(m) = 2 /\ HasPrefix(str, m[2]) /\ Len(m[2]) > Len(rv)
    THEN UncLongestFrom(vms, i + 1, str, m[1], m[2], TRUE)
    ELSE UncLongestFrom(vms, i + 1, str, rk, rv, unc)

UncLongestFrom(vms, i, str, rk, rv, unc) ==
    IF i > Len(vms) THEN <<rk, rv, unc>>
    ELSE UncLongestEntry(vms, i, str, rk, rv, unc, SplitN2(vms[i], "="))

UncLongest(up, str) == UncLongestFrom(Split(up, ";"), 1, str, <<>>, <<>>, FALSE)

(* main.go:481-490 on up = <<value, ok>> of the lookup of WSL_UNC_PATH *)
UncSearch(up, str) == IF up[2] THEN UncLongest(up[1], str) ELSE <<<<>>, <<>>, FALSE>>

(* any variable whose value is a longer prefix, whatever its name *)
AnyVarMatches(k, v, str, rv) == HasPrefix(str, v) /\ Len(v) > Len(rv)

(* a prefix that is as long replaces the one found before *)
VolumeVarMatchesLast(k, v, str, rv) ==
    HasSuffix(k, NixPathEnvSuffix) /\ HasPrefix(str, v) /\ Len(v) >= Len(rv)

(* the condition of main.go:498-499 *)
VolumeVarMatches(k, v, str, rv) ==
    HasSuffix(k, NixPathEnvSuffix) /\ HasPrefix(str, v) /\ Len(v) > Len(rv)

(* main.go:494-503: the variable with the volume suffix whose cleaned      *)
(* value is the longest prefix of str: <<rk, rv>>                          *)
RECURSIVE VolumeLongestFrom(_, _, _, _, _)
RECURSIVE VolumeLongestSplit(_, _, _, _, _, _)
RECURSIVE VolumeLongestEntry(_, _, _, _, _, _, _)

(* main.go:498-501 on k, v *)
VolumeLongestEntry(es, i, str, rk, rv, k, v) ==
    IF VolumeVarMatches(k, v, str, rv)
    THEN VolumeLongestFrom(es, i + 1, str, k, v)
    ELSE VolumeLongestFrom(es, i + 1, str, rk, rv)

(* main.go:496-497 on n, the index of "=" *)
VolumeLongestSplit(es, i, str, rk, rv, n) ==
    IF n # -1 /\ Len(es[i]) > n + 1
    THEN VolumeLongestEntry(es, i, str, rk, rv, Slice(es[i], 0, n),
                            Clean(Unix, Slice(es[i], n + 1, Len(es[i]))))
    ELSE VolumeLongestFrom(es, i + 1, str, rk, rv)

VolumeLongestFrom(es, i, str, rk, rv) ==
    IF i > Len(es) THEN <<rk, rv>>
    ELSE VolumeLongestSplit(es, i, str, rk, rv, Index(es[i], <<"=">>))

VolumeLongest(e, str) == VolumeLongestFrom(Environ(e), 1, str, <<>>, <<>>)

(* main.go:465-466 and 538-539 *)
Retarget(fmt, tgt, str) ==
    Clean(tgt, ReplaceAll(str, <<sep(fmt)>>, <<sep(tgt)>>))

(* the drive letter as it stands *)
VolumeEnvNameAsWritten(v0) == <<v0>> \o NixPathEnvSuffix

(* main.go:435: the variable of the drive letter v0 *)
VolumeEnvName(v0) == ToUpper(<<v0>>) \o NixPathEnvSuffix

(* main.go:436-441 on dp = <<value, ok>> of the lookup of the variable *)
FormatDrive(tgt, p, name, dp) ==
    IF dp[2] THEN Result(Retarget(Windows, tgt, dp[1] \o p), FALSE, Nil)
    ELSE Failure("environment variable not set", name)

(* main.go:447-458 on m = <<mount point, found>> *)
FormatUncFound(tgt, v, p, m) ==
    IF m[2] THEN Result(Retarget(Windows, tgt, m[1] \o p), FALSE, Nil)
    ELSE Failure("UNC volume not found in environment variable", v)

(* main.go:445-461 on up = <<value, ok>> of the lookup of WSL_UNC_PATH *)
FormatUnc(tgt, v, p, up) ==
    IF up[2] THEN FormatUncFound(tgt, v, p, UncLookup(up[1], v))
    ELSE Failure("environment variable not set", UncPathEnvVar)

(* main.go:429-466 on v, p = f.SplitVolume(s) *)
FormatVolume(tgt, sc, e, v, p) ==
    IF Len(v) >= 2 /\ v[2] = ":" /\ IsLetter(v[1])
    THEN FormatDrive(tgt, p, VolumeEnvName(v[1]), LookupEnv(e, VolumeEnvName(v[1])))
    ELSE IF Len(v) >= 5 /\ Slice(v, 0, 2) = <<BSL, BSL>> /\ v[3] # BSL /\ v[3] # "."
    THEN FormatUnc(tgt, v, p, LookupEnv(e, UncPathEnvVar))
    ELSE Result(Retarget(Windows, tgt, sc), FALSE, Nil)

(* case Windows, main.go:427-467, on the cleaned path sc *)
FormatWindows(tgt, sc, e) ==
    IF tgt # Unix THEN Result(sc, FALSE, Nil)
    ELSE FormatVolume(tgt, sc, e, SplitVolume(Windows, sc)[1],
                      SplitVolume(Windows, sc)[2])

(* the fallback taken whenever the variable is set *)
RootfsAllowedAlways(xx, ok) == ok

(* main.go:507: !x && ok *)
RootfsAllowed(xx, ok) == ~xx /\ ok

(* main.go:507-512 on root = <<value, ok>> of the lookup of the rootfs *)
FormatRootfs(tgt, a, xx, root) ==
    IF RootfsAllowed(xx, root[2])
    THEN Result(Retarget(Unix, tgt, root[1] \o <<sep(tgt)>> \o a), TRUE, Nil)
    ELSE Failure("path substring not found in environment", a)

(* main.go:504-513 on r = <<rk, rv>> of the environment loop *)
FormatUnixVolume(tgt, a, xx, e, r) ==
    IF Len(r[1]) > 0
    THEN Result(Retarget(Unix, tgt, ReplaceFirst(a, r[2], <<r[1][1], ":">>)),
                FALSE, Nil)
    ELSE FormatRootfs(tgt, a, xx, LookupEnv(e, WslRootfsEnvVar))

(* main.go:491-514 on u = <<rk, rv, unc>> of the UNC loop *)
FormatUnixMount(tgt, a, xx, e, u) ==
    IF u[3]
    THEN Result(Retarget(Unix, tgt, ReplaceFirst(a, u[2], u[1])), FALSE, Nil)
    ELSE FormatUnixVolume(tgt, a, xx, e, VolumeLongest(e, a))

(* main.go:479-514 on a, the path resolved by abspath *)
FormatUnixResolved(tgt, a, xx, e) ==
    FormatUnixMount(tgt, a, xx, e, UncSearch(LookupEnv(e, UncPathEnvVar), a))

(* the absolute branch of case Unix, main.go:473-514, on the cleaned path  *)
FormatUnixAbsolute(tgt, sc, xx, e, fsys) ==
    FormatUnixResolved(tgt, abspath(fsys, Unix, sc), xx, e)

(* the relative branch returning whatever the nested call made of the     *)
(* absolute path                                                           *)
FormatUnixRelativeResolved(tgt, sc, n) ==
    IF n.err # Nil THEN Result(<<>>, FALSE, n.err)
    ELSE Result(Retarget(Unix, tgt, n.s), n.wsl, Nil)

(* the relative branch returning the relative path when the nested call   *)
(* fails                                                                   *)
FormatUnixRelativeLenient(tgt, sc, n) ==
    IF n.err # Nil THEN Result(Retarget(Unix, tgt, sc), FALSE, Nil)
    ELSE IF n.wsl THEN Result(Retarget(Unix, tgt, n.s), TRUE, Nil)
    ELSE Result(Retarget(Unix, tgt, sc), FALSE, Nil)

(* the relative branch never reporting the fallback *)
FormatUnixRelativeUnflagged(tgt, sc, n) ==
    IF n.err # Nil THEN Result(<<>>, FALSE, n.err)
    ELSE IF n.wsl THEN Result(Retarget(Unix, tgt, n.s), FALSE, Nil)
    ELSE Result(Retarget(Unix, tgt, sc), FALSE, Nil)

(* main.go:525-534: what the relative branch makes of the results n of    *)
(* the nested call                                                         *)
FormatUnixRelative(tgt, sc, n) ==
    IF n.err # Nil THEN Result(<<>>, FALSE, n.err)
    ELSE IF n.wsl THEN Result(Retarget(Unix, tgt, n.s), TRUE, Nil)
    ELSE Result(Retarget(Unix, tgt, sc), FALSE, Nil)

RECURSIVE Format(_, _, _, _, _, _, _)
RECURSIVE FormatCleaned(_, _, _, _, _, _, _)

(* main.go:420-546 on sc, the path cleaned at main.go:419 *)
FormatCleaned(fmt, tgt, sc, xx, z, e, fsys) ==
    IF z > 1 THEN Failure("invalid path", sc)
    ELSE CASE fmt = Windows -> FormatWindows(tgt, sc, e)
           [] fmt = Unix ->
                IF tgt # Windows THEN Result(sc, FALSE, Nil)
                ELSE IF Len(sc) = 0 THEN Result(Retarget(Unix, tgt, sc), FALSE, Nil)
                ELSE IF sc[1] = FSL THEN FormatUnixAbsolute(tgt, sc, xx, e, fsys)
                ELSE FormatUnixRelative(tgt, sc,
                         Format(fmt, tgt, abspath(fsys, fmt, sc), xx, z + 1, e, fsys))
           [] OTHER -> Result(sc, FALSE, Nil)

Format(fmt, tgt, str, xx, z, e, fsys) ==
    FormatCleaned(fmt, tgt, Clean(fmt, str), xx, z, e, fsys)

----------------------------------------------------------------------------
(* Callers of Clean: a path string and a format are drawn, Clean is        *)
(* applied, and applied again to its own result.                           *)

MaxLen == 5
MaxElems == 5

CleanAlphabet == {FSL, BSL, ".", ":", "c"}
ElemAlphabet == {<<>>, DOT, DOTDOT, <<"c">>}
VolumePrefixes == {<<>>, <<"c", ":">>, <<BSL, BSL, "c", BSL, "c">>}

Strings(A, n) == UNION {[1..k -> A] : k \in 0..n}

(* paths written character by character, and paths written element by     *)
(* element behind an optional volume                                       *)
ElementPaths ==
    {Join(e, FSL) : e \in Strings(ElemAlphabet, MaxElems)}
    \cup {v \o Join(e, BSL) : v \in VolumePrefixes,
                               e \in Strings(ElemAlphabet, MaxElems)}

CleanInputs == Strings(CleanAlphabet, MaxLen) \cup ElementPaths

NoResult == [s |-> <<>>, wsl |-> FALSE, err |-> <<>>]

(* the process has not exited *)
Running == -1

NoLocal == [text |-> <<>>, form |-> <<>>, err |-> <<>>]

(* SplitVolume and Elements have not been called *)
NoParts ==
    /\ volume = <<>>
    /\ path = <<>>
    /\ elems = <<>>

(* main is not running *)
NoCli ==
    /\ toWinFlag = FALSE
    /\ toNixFlag = FALSE
    /\ svNumFlag = FALSE
    /\ lines = <<>>
    /\ scanned = 0
    /\ local = NoLocal
    /\ stdout = <<>>
    /\ stderr = <<>>
    /\ exitCode = 0
    /\ status = Running

InitClean ==
    /\ pc = "start"
    /\ f \in Formats
    /\ s \in CleanInputs
    /\ t = f
    /\ x = FALSE
    /\ env = <<>>
    /\ fs = {}
    /\ out = <<>>
    /\ out2 = <<>>
    /\ res = NoResult
    /\ back = NoResult
    /\ NoParts
    /\ NoCli

CallClean ==
    /\ pc = "start"
    /\ out' = Clean(f, s)
    /\ pc' = "cleaned"
    /\ UNCHANGED <<f, t, s, x, env, fs, out2, res, back, parts, cli>>

CallCleanAgain ==
    /\ pc = "cleaned"
    /\ out2' = Clean(f, out)
    /\ pc' = "recleaned"
    /\ UNCHANGED <<f, t, s, x, env, fs, out, res, back, parts, cli>>

(* volume, path = f.SplitVolume(s) *)
CallSplitVolume ==
    /\ pc = "start"
    /\ volume' = SplitVolume(f, s)[1]
    /\ path' = SplitVolume(f, s)[2]
    /\ pc' = "split"
    /\ UNCHANGED <<f, t, s, x, env, fs, out, out2, res, back, elems, cli>>

(* e = f.Elements(s) *)
CallElements ==
    /\ pc = "start"
    /\ elems' = Elements(f, s)
    /\ pc' = "elements"
    /\ UNCHANGED <<f, t, s, x, env, fs, out, out2, res, back, volume, path, cli>>

NextClean == CallClean \/ CallCleanAgain \/ CallSplitVolume \/ CallElements

SpecClean == InitClean /\ [][NextClean]_vars

(* C1: Clean is idempotent: cleaning the result of Clean in the same      *)
(* format returns it unchanged, for Windows, Unix and Any.                 *)
CleanIdempotent == pc = "recleaned" => out2 = out

(* C10: for Windows and Unix, Clean(f, s) is the volume of s followed by a *)
(* remainder r in normal form: no two adjacent separators, no "." element  *)
(* unless r is ".", no ".." element after an element other than "..", and *)
(* no ".." element at all when r is rooted.                                *)
NormalForm(fmt, r) ==
    LET e == Split(r, sep(fmt)) IN
    /\ Index(r, <<sep(fmt), sep(fmt)>>) = -1
    /\ (r # DOT => \A i \in 1..Len(e) : e[i] # DOT)
    /\ \A i \in 2..Len(e) : e[i] = DOTDOT => e[i - 1] = DOTDOT
    /\ (HasPrefix(r, <<sep(fmt)>>) => \A i \in 1..Len(e) : e[i] # DOTDOT)

CleanNormalForm ==
    (pc = "cleaned" /\ f \in {Windows, Unix}) =>
        LET vol == SplitVolume(f, s)[1] IN
        /\ HasPrefix(out, vol)
        /\ NormalForm(f, Slice(out, Len(vol), Len(out)))

(* "/c/../../c" is cleaned to "/c" *)
CleanNormalFormWitness ==
    /\ pc = "cleaned"
    /\ f = Unix
    /\ s = <<FSL, "c", FSL, ".", ".", FSL, ".", ".", FSL, "c">>
    /\ out = <<FSL, "c">>

----------------------------------------------------------------------------
(* Callers of Format: a path, a direction, the -e flag, an environment and *)
(* a file system are drawn; the path is translated, and a translation that *)
(* succeeded is translated back.                                           *)

MaxTail == 3

VolumeVar(letter) == <<letter>> \o NixPathEnvSuffix

MntC == <<FSL, "m", FSL, "c">>
MntD == <<FSL, "m", FSL, "d">>
MntCD == <<FSL, "m", FSL, "c", FSL, "d">>
MntW == <<FSL, "m", FSL, "w">>
MntV == <<FSL, "m", FSL, "v">>
Mnt == <<FSL, "m">>
UncHS == <<BSL, BSL, "h", BSL, "s">>
UncHTP == <<BSL, BSL, "h", BSL, "t", BSL, "p">>
RootfsC == <<"C", ":", BSL, "r">>
HomeVar == <<"H", "O", "M", "E">>

(* C_VOLUME_PATH=/m/c D_VOLUME_PATH=/m/d                                   *)
(* WSL_UNC_PATH=\\h\s=/m/w;\\h\t\p=/m/v WSL_ROOTFS_PATH=C:\r               *)
EnvPlain ==
    << <<VolumeVar("C"), MntC>>, <<VolumeVar("D"), MntD>>,
       <<UncPathEnvVar, UncHS \o <<"=">> \o MntW \o <<";">> \o UncHTP \o <<"=">> \o MntV>>,
       <<WslRootfsEnvVar, RootfsC>> >>

(* D mounted beneath C, C enumerated first; no UNC table *)
EnvNested ==
    << <<VolumeVar("C"), MntC>>, <<HomeVar, Mnt>>, <<VolumeVar("D"), MntCD>>,
       <<WslRootfsEnvVar, RootfsC>> >>

(* the same mounts enumerated in the other order, C written with a         *)
(* trailing separator; no rootfs                                           *)
EnvNestedSwapped ==
    << <<VolumeVar("D"), MntCD>>, <<VolumeVar("C"), MntC \o <<FSL>>>> >>

(* a drive mounted beneath a UNC share *)
EnvUncOuter ==
    << <<UncPathEnvVar, UncHS \o <<"=">> \o Mnt>>, <<VolumeVar("C"), MntC>>,
       <<WslRootfsEnvVar, RootfsC>> >>

(* a UNC share mounted beneath a drive *)
EnvUncInner ==
    << <<VolumeVar("C"), Mnt>>, <<UncPathEnvVar, UncHS \o <<"=">> \o MntW>> >>

(* two variables whose values clean to the same mount point *)
EnvTie ==
    << <<VolumeVar("C"), MntD \o <<FSL>>>>, <<VolumeVar("D"), MntD>>,
       <<WslRootfsEnvVar, RootfsC>> >>

EnvEmpty == <<>>

EnvRootfsOnly == << <<WslRootfsEnvVar, RootfsC>> >>

Envs == {EnvPlain, EnvNested, EnvNestedSwapped, EnvUncOuter, EnvUncInner,
         EnvTie, EnvEmpty, EnvRootfsOnly}

MountDirs == {<<FSL>>, Mnt, MntC, MntD, MntCD, MntW, MntV, <<FSL, "e">>}

(* the mounts exist; the mounts exist and the working directory is on no   *)
(* volume; nothing but the root exists                                     *)
FileSystems ==
    { [dirs |-> MountDirs, cwd |-> MntC],
      [dirs |-> MountDirs, cwd |-> <<FSL, "e">>],
      [dirs |-> {<<FSL>>}, cwd |-> <<FSL>>] }

UnixHeads == {<<>>, <<FSL>>, Mnt, MntC, MntD, MntCD, MntW, MntV, <<FSL, "e">>}
UnixTails == Strings({FSL, ".", "c"}, MaxTail)

WindowsHeads ==
    {<<>>, <<"C", ":">>, <<"c", ":">>, <<"D", ":">>, <<"E", ":">>,
     UncHS, <<BSL, BSL, "H", BSL, "s">>, UncHTP, <<BSL, BSL, "h", BSL, "x">>}
WindowsTails == Strings({BSL, ".", "c"}, MaxTail)

(* the documented examples, with Windows = c, System32 = d, andrew = c,   *)
(* file = d, foo = c, bar = d, etc = e                                     *)
ExampleWindowsDrive == <<"C", ":", BSL, "c", BSL, "d", BSL, ".", ".">>
ExampleWindowsUnc == UncHTP \o <<BSL, "c">>
ExampleUnixDrive == MntD \o <<FSL, "c", FSL, "d">>
ExampleUnixNested == MntCD \o <<FSL, "c", FSL, "d">>
ExampleUnixUnc == MntV \o <<FSL, "c", FSL, "d">>
ExampleUnixRootfs == <<FSL, "e">>

FormatInputs(fmt) ==
    IF fmt = Unix
    THEN {h \o tl : h \in UnixHeads, tl \in UnixTails}
         \cup {ExampleUnixDrive, ExampleUnixNested, ExampleUnixUnc, ExampleUnixRootfs}
    ELSE {h \o tl : h \in WindowsHeads, tl \in WindowsTails}
         \cup {ExampleWindowsDrive, ExampleWindowsUnc}

Other(fmt) == IF fmt = Windows THEN Unix ELSE Windows

(* a call with the target format equal to the source format reads neither *)
(* the flag, nor the environment, nor the file system: one of each is      *)
(* drawn for it                                                            *)
InitFormat ==
    /\ pc = "start"
    /\ f \in {Windows, Unix}
    /\ t \in {Windows, Unix}
    /\ s \in FormatInputs(f)
    /\ x \in BOOLEAN
    /\ env \in Envs
    /\ fs \in FileSystems
    /\ (t = f => (~x /\ env = EnvPlain /\ fs.cwd = MntC))
    /\ out = <<>>
    /\ out2 = <<>>
    /\ res = NoResult
    /\ back = NoResult
    /\ NoParts
    /\ NoCli

(* form, _, err = ... : the results of the first call, or of the call on  *)
(* the translated path                                                     *)
Returned(r) ==
    /\ res' = IF pc = "start" THEN r ELSE res
    /\ back' = IF pc = "start" THEN back ELSE r

(* form, _, err = f.Format(t, text, existFlag, 0), main.go:178-188; the    *)
(* second time the translation is handed to the opposite translation       *)
CallFormat ==
    /\ pc \in {"start", "turned"}
    /\ Returned(Format(IF pc = "start" THEN f ELSE t,
                       IF pc = "start" THEN t ELSE f,
                       IF pc = "start" THEN s ELSE res.s, x, 0, env, fs))
    /\ pc' = IF pc = "start" THEN "formatted" ELSE "back"
    /\ UNCHANGED <<f, t, s, x, env, fs, out, out2, parts, cli>>

(* a translation that succeeded becomes the input of the opposite one *)
TurnAround ==
    /\ pc = "formatted"
    /\ t = Other(f)
    /\ res.err = Nil
    /\ pc' = "turned"
    /\ UNCHANGED <<f, t, s, x, env, fs, out, out2, res, back, parts, cli>>

NextFormat == CallFormat \/ TurnAround

SpecFormat == InitFormat /\ [][NextFormat]_vars

----------------------------------------------------------------------------
(* What the claims about Format speak of *)

IsDrive(v) == Len(v) = 2 /\ v[2] = ":" /\ IsLetter(v[1])

(* the volume and the remainder of the path as Format sees it: cleaned in  *)
(* the source format first                                                 *)
SourceVolume == SplitVolume(Windows, Clean(Windows, s))[1]
SourceRemainder == SplitVolume(Windows, Clean(Windows, s))[2]

(* the absolute Unix path as Format sees it: cleaned and resolved *)
SourcePath == abspath(fs, Unix, Clean(Unix, s))

ToBackslashes(str) == [i \in 1..Len(str) |-> IF str[i] = FSL THEN BSL ELSE str[i]]
ToSlashes(str) == [i \in 1..Len(str) |-> IF str[i] = BSL THEN FSL ELSE str[i]]

Range(q) == {q[i] : i \in 1..Len(q)}

(* the entries <<UNC prefix, mount point>> of the WSL_UNC_PATH table *)
UncTable ==
    IF LookupEnv(env, UncPathEnvVar)[2]
    THEN {SplitN2(vm, "=") : vm \in {w \in Range(Split(LookupEnv(env, UncPathEnvVar)[1], ";")) :
                                        Len(SplitN2(w, "=")) = 2}}
    ELSE {}

(* the positions in the environment of the <K>_VOLUME_PATH variables whose *)
(* cleaned value is a prefix of the path a                                 *)
VolumeMatches(a) ==
    {i \in 1..Len(env) : /\ HasSuffix(env[i][1], NixPathEnvSuffix)
                         /\ Len(env[i][2]) > 0
                         /\ HasPrefix(a, Clean(Unix, env[i][2]))}

UncMatches(a) == {m \in UncTable : Len(m[2]) > 0 /\ HasPrefix(a, m[2])}

UnixToWindows == f = Unix /\ t = Windows /\ HasPrefix(s, <<FSL>>)
WindowsToUnix == f = Windows /\ t = Unix

(* C3: Windows -> Unix of a path on drive X with uppercase(X)_VOLUME_PATH  *)
(* set to M succeeds with Clean(Unix, M + remainder, backslashes replaced  *)
(* by "/"), the remainder being that of the path cleaned as Windows path.  *)
DriveToUnix ==
    (pc = "formatted" /\ WindowsToUnix /\ Len(s) >= 2 /\ IsDrive(SubSeq(s, 1, 2))
     /\ LookupEnv(env, <<ToUpperChar(s[1])>> \o NixPathEnvSuffix)[2]) =>
        LET M == LookupEnv(env, <<ToUpperChar(s[1])>> \o NixPathEnvSuffix)[1] IN
        res = Result(Clean(Unix, M \o ToSlashes(SourceRemainder)), FALSE, Nil)

(* C:\Windows\System32\.. gives /mnt/c/Windows; a lower-case drive too *)
DriveToUnixWitness ==
    /\ pc = "formatted"
    /\ env = EnvPlain
    /\ \/ s = ExampleWindowsDrive /\ res.s = MntC \o <<FSL, "c">>
       \/ s = <<"c", ":", BSL, "c">> /\ res.s = MntC \o <<FSL, "c">>

(* C5: Unix -> Windows of an absolute path no mount point prefixes, with   *)
(* fallback allowed and WSL_ROOTFS_PATH = R, succeeds with                 *)
(* Clean(Windows, R + "\" + path with "/" replaced by "\") and flag true.  *)
RootfsFallback ==
    (pc = "formatted" /\ UnixToWindows /\ ~x
     /\ UncMatches(SourcePath) = {} /\ VolumeMatches(SourcePath) = {}
     /\ LookupEnv(env, WslRootfsEnvVar)[2]) =>
        LET R == LookupEnv(env, WslRootfsEnvVar)[1] IN
        res = Result(Clean(Windows, R \o <<BSL>> \o ToBackslashes(Clean(Unix, s))),
                     TRUE, Nil)

(* R = C:\r and /e give C:\r\e *)
RootfsFallbackWitness ==
    /\ pc = "formatted"
    /\ UnixToWindows
    /\ s = ExampleUnixRootfs
    /\ res = Result(RootfsC \o <<BSL, "e">>, TRUE, Nil)

(* C6: Unix -> Windows of an absolute path no mount point prefixes, with   *)
(* fallback disabled, fails with an error, an empty string and flag false, *)
(* whether WSL_ROOTFS_PATH is set or not.                                  *)
NoMountMatch ==
    (pc = "formatted" /\ UnixToWindows /\ x
     /\ UncMatches(SourcePath) = {} /\ VolumeMatches(SourcePath) = {}) =>
        /\ res.err # Nil
        /\ res.s = <<>>
        /\ res.wsl = FALSE

NoMountMatchWitness ==
    /\ pc = "formatted"
    /\ UnixToWindows
    /\ x
    /\ s = ExampleUnixRootfs
    /\ LookupEnv(env, WslRootfsEnvVar) = <<RootfsC, TRUE>>
    /\ res.err # Nil

(* C7: Windows -> Unix of a path whose volume has no mapping fails: for a  *)
(* drive X without uppercase(X)_VOLUME_PATH the error names that variable, *)
(* for a UNC volume without WSL_UNC_PATH or without an entry for it an     *)
(* error is returned; the string is empty and the flag false.              *)
UnmappedVolume ==
    LET v == SplitVolume(Windows, s)[1]
        name == <<ToUpperChar(s[1])>> \o NixPathEnvSuffix
    IN  /\ (pc = "formatted" /\ WindowsToUnix /\ IsDrive(v)
            /\ ~\E i \in 1..Len(env) : env[i][1] = name) =>
                res = Result(<<>>, FALSE, <<"environment variable not set", name>>)
        /\ (pc = "formatted" /\ WindowsToUnix /\ Len(v) >= 5
            /\ ~\E m \in UncTable : ToUpper(m[1]) = ToUpper(SourceVolume)) =>
                res.err # Nil /\ res.s = <<>> /\ res.wsl = FALSE

UnmappedVolumeWitness ==
    /\ pc = "formatted"
    /\ WindowsToUnix
    /\ \/ /\ s = <<"E", ":", BSL, "c">>
          /\ env = EnvPlain
          /\ res.err = <<"environment variable not set", VolumeVar("E")>>
       \/ /\ s = <<BSL, BSL, "h", BSL, "x", BSL, "c">>
          /\ env = EnvPlain
          /\ res.err # Nil

(* the path a with its prefix of length n replaced by the volume vol, in   *)
(* Windows form                                                            *)
Substituted(a, n, vol) ==
    Clean(Windows, vol \o ToBackslashes(Slice(a, n, Len(a))))

VolumeMount(i) == Clean(Unix, env[i][2])
VolumeToken(i) ==
    SubSeq(env[i][1], 1, Len(env[i][1]) - Len(NixPathEnvSuffix)) \o <<":">>

LongestVolumes(a) ==
    {i \in VolumeMatches(a) :
        \A j \in VolumeMatches(a) : Len(VolumeMount(j)) <= Len(VolumeMount(i))}

(* C4 as claimed: with no UNC entry matching, the result is the path with  *)
(* its longest mount-point prefix replaced by "<K>:", whichever variable   *)
(* of that mount point the enumeration meets first.                        *)
LongestVolumeAnyOrder ==
    (pc = "formatted" /\ UnixToWindows /\ UncMatches(SourcePath) = {}) =>
        \A i \in LongestVolumes(SourcePath) :
            res = Result(Substituted(SourcePath, Len(VolumeMount(i)), VolumeToken(i)),
                         FALSE, Nil)

(* C4 amended: with no UNC entry matching, the variable selected is the    *)
(* one whose cleaned value is the longest prefix of the path, and among    *)
(* variables of equal cleaned value the one enumerated first.              *)
LongestVolumeFirst ==
    (pc = "formatted" /\ UnixToWindows /\ UncMatches(SourcePath) = {}
     /\ VolumeMatches(SourcePath) # {}) =>
        LET i == CHOOSE k \in LongestVolumes(SourcePath) :
                     \A j \in LongestVolumes(SourcePath) : k <= j
        IN  res = Result(Substituted(SourcePath, Len(VolumeMount(i)), VolumeToken(i)),
                         FALSE, Nil)

(* /m/c/d/c/d with D mounted at /m/c/d beneath C gives D:\c\d in either    *)
(* enumeration order                                                       *)
LongestVolumeWitness ==
    /\ pc = "formatted"
    /\ UnixToWindows
    /\ s = ExampleUnixNested
    /\ env \in {EnvNested, EnvNestedSwapped}
    /\ res.s = <<"D", ":", BSL, "c", BSL, "d">>

(* C8 as claimed: Windows -> Unix of a path that begins with the key K of  *)
(* an entry K=M of WSL_UNC_PATH (any case), followed by a separator or the *)
(* end, gives Clean(Unix, M + rest with "\" replaced by "/").              *)
UncToUnix ==
    (pc = "formatted" /\ WindowsToUnix) =>
        \A m \in UncTable :
            LET sc == Clean(Windows, s)
                n == Len(m[1])
            IN  (/\ Len(SplitVolume(Windows, m[1])[1]) >= 5
                 /\ HasPrefix(ToUpper(sc), ToUpper(m[1]))
                 /\ (Len(sc) = n \/ sc[n + 1] = BSL)) =>
                    res = Result(Clean(Unix, m[2] \o ToSlashes(Slice(sc, n, Len(sc)))),
                                 FALSE, Nil)

(* C9 as claimed: the UNC entries and the volume variables are searched    *)
(* together and the mount point that is the longest prefix of the path is  *)
(* replaced by its UNC prefix or "<K>:".                                   *)
LongestMount ==
    (pc = "formatted" /\ UnixToWindows) =>
        LET a == SourcePath
            longest == {n \in {Len(m[2]) : m \in UncMatches(a)}
                               \cup {Len(VolumeMount(i)) : i \in VolumeMatches(a)} :
                          /\ \A m \in UncMatches(a) : Len(m[2]) <= n
                          /\ \A i \in VolumeMatches(a) : Len(VolumeMount(i)) <= n}
        IN  /\ \A m \in UncMatches(a) :
                 Len(m[2]) \in longest =>
                     res = Result(Substituted(a, Len(m[2]), m[1]), FALSE, Nil)
            /\ \A i \in LongestVolumes(a) :
                 (Len(VolumeMount(i)) \in longest /\ Cardinality(LongestVolumes(a)) = 1) =>
                     res = Result(Substituted(a, Len(VolumeMount(i)), VolumeToken(i)),
                                  FALSE, Nil)

IsAbsolute(fmt, str) ==
    IF fmt = Unix THEN HasPrefix(str, <<FSL>>)
    ELSE LET sv == SplitVolume(Windows, str) IN
         Len(sv[1]) > 0 /\ HasPrefix(sv[2], <<BSL>>)

(* C2 as claimed: an absolute path translated to the other format without  *)
(* rootfs fallback and translated back is the path cleaned, the file       *)
(* system resolving every path to itself.                                  *)
RoundTrip ==
    (/\ pc = "back"
     /\ IsAbsolute(f, s)
     /\ ~res.wsl /\ ~back.wsl
     /\ LET q == IF f = Unix THEN Clean(Unix, s) ELSE res.s IN
        abspath(fs, Unix, q) = q) =>
        back = Result(Clean(f, s), FALSE, Nil)

----------------------------------------------------------------------------
(* C11: Clean never returns the empty string, and its result ends in a     *)
(* separator of the format only when it is the root, the volume followed   *)
(* by the separator; Clean(Unix, "") = ".", Clean(Windows, "c:") = "c:."   *)
(* and Clean(Windows, "c:\") = "c:\".                                      *)
CleanResultShape ==
    pc = "cleaned" =>
        /\ out # <<>>
        /\ (issep(f, out[Len(out)]) => out = SplitVolume(f, s)[1] \o <<sep(f)>>)
        /\ ((f = Unix /\ s = <<>>) => out = DOT)
        /\ ((f = Windows /\ s = <<"c", ":">>) => out = <<"c", ":", ".">>)
        /\ ((f = Windows /\ s = <<"c", ":", BSL>>) => out = <<"c", ":", BSL>>)


(* C12: on every string of the alphabet Clean in the Unix format returns   *)
(* what the lexical path clean of the Go library (path.Clean) returns.     *)
CleanIsLexical == (pc = "cleaned" /\ f = Unix) => out = GoClean(s)

(* "c/../../c" is cleaned to "../c" by both *)
CleanIsLexicalWitness ==
    /\ pc = "cleaned"
    /\ f = Unix
    /\ s = <<"c", FSL, ".", ".", FSL, ".", ".", FSL, "c">>
    /\ out = <<".", ".", FSL, "c">>
    /\ GoClean(s) = out

----------------------------------------------------------------------------
(* The command line, main.go:143-207.  lines is what the scanner delivers, *)
(* scanned the number of lines delivered so far, local the variables text, *)
(* form and err of the loop body, status the exit status of the process.   *)

(* Identify, main.go:226-243: the scan for the first separator from i *)
RECURSIVE IdentifyFrom(_, _)
IdentifyFrom(str, i) ==
    IF i > Len(str)
    THEN IF Len(str) > 1 /\ str[2] = ":" /\ IsLetter(str[1]) THEN Windows ELSE Any
    ELSE IF str[i] = BSL THEN Windows
    ELSE IF str[i] = FSL THEN Unix
    ELSE IdentifyFrom(str, i + 1)

(* a path without a separator is never taken for a Windows path *)
IdentifyBySeparatorOnly(str) ==
    IF \A i \in 1..Len(str) : str[i] # BSL /\ str[i] # FSL THEN Any
    ELSE IdentifyFrom(str, 1)

Identify(str) == IdentifyFrom(str, 1)

(* the format the line is read in, main.go:176-192 *)
SourceFormat(toWin, toNix, str) ==
    IF toWin THEN Unix ELSE IF toNix THEN Windows ELSE Identify(str)

(* form, _, err of main.go:178-190 for a line read in the format src *)
Translate(src, str, xx, e, fsys) ==
    IF src = Any THEN Result(Clean(Any, str), FALSE, Nil)
    ELSE Format(src, Other(src), str, xx, 0, e, fsys)

(* the line printed for -v, without the name of the program *)
VersionLine == <<"v", "e", "r", "s", "i", "o", "n", " ", "0", ".", "1", ".", "1">>
ExclusiveFlags == <<"invalid arguments: -w and -x are mutually exclusive">>
ScanError == <<"Scan()">>

MaxLines == 3

(* "", c, c:c, E:\c, /e\c, c\d/c *)
Texts ==
    { <<>>, <<"c">>, <<"c", ":", "c">>, <<"E", ":", BSL, "c">>,
      <<FSL, "e", BSL, "c">>, <<"c", BSL, "d", FSL, "c">> }

InitMain ==
    /\ pc = "main"
    /\ f = Any
    /\ t = Any
    /\ s = <<>>
    /\ x \in BOOLEAN
    /\ env = EnvPlain
    /\ fs = [dirs |-> MountDirs, cwd |-> MntC]
    /\ out = <<>>
    /\ out2 = <<>>
    /\ res = NoResult
    /\ back = NoResult
    /\ NoParts
    /\ toWinFlag \in BOOLEAN
    /\ toNixFlag \in BOOLEAN
    /\ svNumFlag \in BOOLEAN
    /\ lines \in Strings(Texts, MaxLines)
    /\ scanned = 0
    /\ local = NoLocal
    /\ stdout = <<>>
    /\ stderr = <<>>
    /\ exitCode = 0
    /\ status = Running

(* main.go:145-165: the flags are parsed, the version is printed when -v   *)
(* is given, and -w with -x ends the run with status 100                   *)
ParseFlags ==
    /\ pc = "main"
    /\ stdout' = IF svNumFlag THEN <<VersionLine>> ELSE <<>>
    /\ stderr' = IF toWinFlag /\ toNixFlag THEN <<ExclusiveFlags>> ELSE <<>>
    /\ status' = IF toWinFlag /\ toNixFlag THEN 100 ELSE Running
    /\ pc' = IF toWinFlag /\ toNixFlag THEN "exit" ELSE "scan"
    /\ exitCode' = 0
    /\ UNCHANGED <<f, t, s, x, env, fs, out, out2, res, back, parts,
                   toWinFlag, toNixFlag, svNumFlag, lines, scanned, local>>

(* the exit code telling of the last line only *)
ExitCodeOfLast(code, r) == IF r.err # Nil THEN 1 ELSE 0

(* the exit code after a line with the results r, main.go:193-196 *)
ExitCodeAfter(code, r) == IF r.err # Nil THEN 1 ELSE code

(* main.go:193-198: an error is reported and the line skipped, a           *)
(* translation is printed                                                  *)
Report(str, r) ==
    /\ local' = [text |-> str, form |-> r.s, err |-> r.err]
    /\ stderr' = IF r.err # Nil THEN Append(stderr, r.err) ELSE stderr
    /\ exitCode' = ExitCodeAfter(exitCode, r)
    /\ stdout' = IF r.err # Nil THEN stdout ELSE Append(stdout, r.s)

(* one turn of the loop, main.go:169-199 *)
ScanLine ==
    /\ pc = "scan"
    /\ scanned < Len(lines)
    /\ Report(lines[scanned + 1],
              Translate(SourceFormat(toWinFlag, toNixFlag, lines[scanned + 1]),
                        lines[scanned + 1], x, env, fs))
    /\ scanned' = scanned + 1
    /\ UNCHANGED <<pc, f, t, s, x, env, fs, out, out2, res, back, parts,
                   toWinFlag, toNixFlag, svNumFlag, lines, status>>

(* the input is exhausted, main.go:169 and 206 *)
EndOfInput ==
    /\ pc = "scan"
    /\ scanned = Len(lines)
    /\ status' = exitCode
    /\ pc' = "exit"
    /\ UNCHANGED <<f, t, s, x, env, fs, out, out2, res, back, parts,
                   toWinFlag, toNixFlag, svNumFlag, lines, scanned, local,
                   stdout, stderr, exitCode>>

(* the scanner stops on a read failure, main.go:201-204 *)
ScanFails ==
    /\ pc = "scan"
    /\ stderr' = Append(stderr, ScanError)
    /\ status' = 127
    /\ pc' = "exit"
    /\ UNCHANGED <<f, t, s, x, env, fs, out, out2, res, back, parts,
                   toWinFlag, toNixFlag, svNumFlag, lines, scanned, local,
                   stdout, exitCode>>

NextMain == ParseFlags \/ ScanLine \/ EndOfInput \/ ScanFails

SpecMain == InitMain /\ [][NextMain]_vars


----------------------------------------------------------------------------
(* What the claims about main speak of *)

NoSeparator(str) == \A i \in 1..Len(str) : str[i] # BSL /\ str[i] # FSL

FirstSeparator(str) ==
    str[CHOOSE i \in 1..Len(str) :
            /\ issep(Any, str[i])
            /\ \A j \in 1..(i - 1) : ~issep(Any, str[j])]

DrivePrefix(str) == Len(str) > 1 /\ str[2] = ":" /\ IsLetter(str[1])

(* a line has been handled with neither -w nor -x given *)
AutoDetected == pc = "scan" /\ scanned > 0 /\ ~toWinFlag /\ ~toNixFlag

(* C13 as claimed: every line without a separator is classified Any and    *)
(* printed as Clean(Any, line), the line itself when it is not empty; a    *)
(* line with a separator is classified by its first separator.             *)
IdentifyBySeparator ==
    AutoDetected =>
        /\ NoSeparator(local.text) =>
              /\ Identify(local.text) = Any
              /\ local.err = Nil
              /\ local.form = Clean(Any, local.text)
              /\ (local.text # <<>> => local.form = local.text)
        /\ ~NoSeparator(local.text) =>
              Identify(local.text) =
                  (IF FirstSeparator(local.text) = BSL THEN Windows ELSE Unix)

(* C13: a line without a separator is classified Any and printed as        *)
(* Clean(Any, line), the line itself when it is not empty, unless it       *)
(* begins with a letter followed by ":": then it is classified Windows and *)
(* translated to the Unix format; a line with a separator is classified by *)
(* its first separator.                                                    *)
IdentifyDrivePrefix ==
    AutoDetected =>
        /\ (NoSeparator(local.text) /\ ~DrivePrefix(local.text)) =>
              /\ Identify(local.text) = Any
              /\ local.err = Nil
              /\ local.form = Clean(Any, local.text)
              /\ (local.text # <<>> => local.form = local.text)
        /\ (NoSeparator(local.text) /\ DrivePrefix(local.text)) =>
              /\ Identify(local.text) = Windows
              /\ local.form = FormatWindows(Unix, Clean(Windows, local.text), env).s
              /\ local.err = FormatWindows(Unix, Clean(Windows, local.text), env).err
        /\ ~NoSeparator(local.text) =>
              Identify(local.text) =
                  (IF FirstSeparator(local.text) = BSL THEN Windows ELSE Unix)

(* "c:c" is read as a Windows path and printed as "/m/cc" *)
IdentifyDrivePrefixWitness ==
    /\ AutoDetected
    /\ local.text = <<"c", ":", "c">>
    /\ local.err = Nil
    /\ local.form = MntC \o <<"c">>
    /\ stdout[Len(stdout)] = local.form


----------------------------------------------------------------------------
(* What the claims about SplitVolume and Elements speak of *)

(* the position (from 1) of the first backslash of str at or after i, or   *)
(* Len(str) + 1                                                            *)
NextBackslash(str, i) ==
    IF \E j \in i..Len(str) : str[j] = BSL
    THEN CHOOSE j \in i..Len(str) :
             str[j] = BSL /\ \A k \in i..(j - 1) : str[k] # BSL
    ELSE Len(str) + 1

StartsWithDrive(str) == Len(str) >= 2 /\ IsLetter(str[1]) /\ str[2] = ":"

(* two backslashes, then a host that begins with neither a backslash nor   *)
(* ".", then a backslash followed by a character outside excluded          *)
StartsWithUnc(str, excluded) ==
    /\ Len(str) >= 3
    /\ str[1] = BSL /\ str[2] = BSL
    /\ str[3] \notin {BSL, "."}
    /\ NextBackslash(str, 4) < Len(str)
    /\ str[NextBackslash(str, 4) + 1] \notin excluded

(* the position of the last character of the share *)
UncEnd(str) == NextBackslash(str, NextBackslash(str, 4) + 1) - 1

(* the volume and the remainder as the rules give them, the share not      *)
(* beginning with a character of excluded                                  *)
VolumeByRule(fmt, str, excluded) ==
    IF fmt = Windows /\ StartsWithDrive(str)
    THEN <<SubSeq(str, 1, 2), SubSeq(str, 3, Len(str))>>
    ELSE IF fmt = Windows /\ StartsWithUnc(str, excluded)
    THEN <<SubSeq(str, 1, UncEnd(str)), SubSeq(str, UncEnd(str) + 1, Len(str))>>
    ELSE <<<<>>, str>>

(* C14 as claimed: the volume is the drive letter with its colon, or the   *)
(* host and the share of a path that starts with two backslashes, a host   *)
(* beginning with neither a backslash nor "." and a backslash followed by  *)
(* a character that is not a backslash; otherwise, and in the formats Unix *)
(* and Any, the volume is empty and the remainder is the whole path.       *)
VolumeRule ==
    pc = "split" => <<volume, path>> = VolumeByRule(f, s, {BSL})

(* C14: the same, the character after the backslash that ends the host     *)
(* being neither a backslash nor ".": a share that begins with "." is not  *)
(* a volume.                                                               *)
VolumeRuleNoDotShare ==
    pc = "split" => <<volume, path>> = VolumeByRule(f, s, {BSL, "."})

(* "\\c\c\c" is split into "\\c\c" and "\c" *)
VolumeRuleWitness ==
    /\ pc = "split"
    /\ f = Windows
    /\ s = <<BSL, BSL, "c", BSL, "c", BSL, "c">>
    /\ volume = <<BSL, BSL, "c", BSL, "c">>
    /\ path = <<BSL, "c">>

(* C15: no element Elements returns contains a separator, and none is      *)
(* empty but a single leading one, present exactly when the path starts    *)
(* with a separator.                                                       *)
ElementsNoEmpty ==
    pc = "elements" =>
        /\ \A i \in 1..Len(elems) : \A j \in 1..Len(elems[i]) : ~issep(f, elems[i][j])
        /\ \A i \in 2..Len(elems) : elems[i] # <<>>
        /\ (elems # <<>> /\ elems[1] = <<>>) <=> (s # <<>> /\ issep(f, s[1]))


----------------------------------------------------------------------------
(* What the claims about relative paths and the fallback speak of *)

IsRelative == f = Unix /\ t = Windows /\ ~HasPrefix(Clean(Unix, s), <<FSL>>)

(* the absolute path the mappings are compared with: the path cleaned and  *)
(* resolved, and for a relative path cleaned and resolved again by the     *)
(* nested call                                                             *)
ResolvedPath ==
    IF HasPrefix(Clean(Unix, s), <<FSL>>) THEN SourcePath
    ELSE abspath(fs, Unix, Clean(Unix, SourcePath))

NoMapping(a) == UncMatches(a) = {} /\ VolumeMatches(a) = {}

(* the rootfs path is prepended: the translation is from Unix to Windows,  *)
(* the path resolves to an absolute one that no mapping matches, the       *)
(* fallback is allowed and WSL_ROOTFS_PATH is set                          *)
RootfsUsed ==
    /\ f = Unix /\ t = Windows
    /\ HasPrefix(SourcePath, <<FSL>>)
    /\ NoMapping(ResolvedPath)
    /\ ~x
    /\ LookupEnv(env, WslRootfsEnvVar)[2]

(* C16: the flag Format returns is true exactly when the path returned was *)
(* built by prepending WSL_ROOTFS_PATH because no mapping matched, in the  *)
(* call itself or in the nested call for a relative path; it is false for  *)
(* Windows -> Unix, for equal source and target formats, for a path        *)
(* resolved through a drive or UNC mapping, and for every error.           *)
FallbackFlag ==
    pc = "formatted" =>
        /\ res.wsl <=> RootfsUsed
        /\ res.wsl => (/\ res.err = Nil
                       /\ HasPrefix(res.s, LookupEnv(env, WslRootfsEnvVar)[1]))
        /\ f = Windows => ~res.wsl
        /\ f = t => ~res.wsl
        /\ (f = Unix /\ t = Windows /\ ~NoMapping(ResolvedPath)) => ~res.wsl
        /\ res.err # Nil => ~res.wsl

(* "." in the directory /e, which is on no volume, gives C:\r\e with the   *)
(* flag, through the nested call                                           *)
FallbackFlagWitness ==
    /\ pc = "formatted"
    /\ f = Unix /\ t = Windows
    /\ s = DOT
    /\ fs.cwd = <<FSL, "e">>
    /\ res = Result(RootfsC \o <<BSL, "e">>, TRUE, Nil)


(* the nesting level of the deepest call of Format that a call at level z  *)
(* leads to, main.go:417-425 and 515-525                                   *)
RECURSIVE FormatDepth(_, _, _, _, _)
RECURSIVE FormatDepthCleaned(_, _, _, _, _)
FormatDepthCleaned(fmt, tgt, sc, z, fsys) ==
    IF z > 1 THEN z
    ELSE IF fmt = Unix /\ tgt = Windows /\ Len(sc) > 0 /\ sc[1] # FSL
    THEN FormatDepth(fmt, tgt, abspath(fsys, fmt, sc), z + 1, fsys)
    ELSE z

FormatDepth(fmt, tgt, str, z, fsys) ==
    FormatDepthCleaned(fmt, tgt, Clean(fmt, str), z, fsys)

(* C18: a call of Format at level 0 returns, and leads to no call beyond   *)
(* level 2, where nothing is translated; a nested call is made only for a  *)
(* relative path from Unix to Windows, and when the resolved path is still *)
(* relative the result is the error "invalid path" with an empty string.   *)
NestingBound ==
    pc = "formatted" =>
        /\ FormatDepth(f, t, s, 0, fs) <= 2
        /\ FormatDepth(f, t, s, 0, fs) > 0 => IsRelative
        /\ FormatDepth(f, t, s, 0, fs) = 2 <=>
               (IsRelative /\ ~HasPrefix(SourcePath, <<FSL>>))
        /\ FormatDepth(f, t, s, 0, fs) = 2 =>
               (/\ res.s = <<>>
                /\ res.wsl = FALSE
                /\ res.err # Nil
                /\ res.err[1] = "invalid path")
        /\ FormatDepth(f, t, s, 0, fs) < 2 =>
               (res.err = Nil \/ res.err[1] # "invalid path")

(* "c" names nothing in the working directory and stays relative *)
NestingBoundWitness ==
    /\ pc = "formatted"
    /\ f = Unix /\ t = Windows
    /\ s = <<"c">>
    /\ FormatDepth(f, t, s, 0, fs) = 2
    /\ res = Failure("invalid path", <<"c">>)

(* C19: Unix -> Windows of a relative path returns no drive- or UNC-mapped *)
(* absolute path: when a mapping covers the resolved absolute path, the    *)
(* result is the relative path itself with "/" replaced by "\" and         *)
(* cleaned, flag false; when only the rootfs fallback reaches it, the      *)
(* absolute rootfs path, flag true; an error of the nested call is         *)
(* returned as it is.                                                      *)
RelativeStaysRelative ==
    (pc = "formatted" /\ IsRelative) =>
        IF ~HasPrefix(SourcePath, <<FSL>>)
        THEN res = Failure("invalid path",
                           Clean(Unix, abspath(fs, Unix, Clean(Unix, SourcePath))))
        ELSE IF ~NoMapping(ResolvedPath)
        THEN res = Result(Clean(Windows, ToBackslashes(Clean(Unix, s))), FALSE, Nil)
        ELSE IF ~x /\ LookupEnv(env, WslRootfsEnvVar)[2]
        THEN res = Result(Clean(Windows,
                              Clean(Windows, LookupEnv(env, WslRootfsEnvVar)[1]
                                             \o <<BSL>> \o ToBackslashes(ResolvedPath))),
                          TRUE, Nil)
        ELSE res = Failure("path substring not found in environment", ResolvedPath)

(* "." in the directory /m/c, the mount point of C, stays "." *)
RelativeStaysRelativeWitness ==
    /\ pc = "formatted"
    /\ IsRelative
    /\ s = DOT
    /\ fs.cwd = MntC
    /\ env = EnvPlain
    /\ ResolvedPath = MntC
    /\ res = Result(DOT, FALSE, Nil)

(* the path a is the mount point m or lies beneath it *)
AtOrBeneath(a, m) ==
    /\ HasPrefix(a, m)
    /\ \/ Len(a) = Len(m)
       \/ m[Len(m)] = FSL
       \/ a[Len(m) + 1] = FSL

(* C20: Unix -> Windows substitutes a volume for a mount point only when   *)
(* the path is the mount point or continues with "/" right after it; a     *)
(* path that has the mount point as a prefix of a longer element is not    *)
(* mapped to that volume.                                                  *)
MountBoundary ==
    (pc = "formatted" /\ UnixToWindows) =>
        /\ \A i \in VolumeMatches(SourcePath) :
               ~AtOrBeneath(SourcePath, VolumeMount(i)) =>
                   res # Result(Substituted(SourcePath, Len(VolumeMount(i)),
                                            VolumeToken(i)), FALSE, Nil)
        /\ \A m \in UncMatches(SourcePath) :
               ~AtOrBeneath(SourcePath, m[2]) =>
                   res # Result(Substituted(SourcePath, Len(m[2]), m[1]), FALSE, Nil)


(* form and err for the line i of the input *)
Outcome(i) ==
    Translate(SourceFormat(toWinFlag, toNixFlag, lines[i]), lines[i], x, env, fs)

(* the translations of the lines among the first k that succeed, in order *)
RECURSIVE Translations(_)
Translations(k) ==
    IF k = 0 THEN <<>>
    ELSE IF Outcome(k).err = Nil THEN Append(Translations(k - 1), Outcome(k).s)
    ELSE Translations(k - 1)

SomeFailed(k) == \E i \in 1..k : Outcome(i).err # Nil

(* what standard output holds when the loop is entered *)
BeforeLoop == IF svNumFlag THEN <<VersionLine>> ELSE <<>>

DriveBeneathMount ==
    (pc = "formatted" /\ WindowsToUnix /\ IsDrive(SourceVolume)
     /\ LookupEnv(env, VolumeEnvName(SourceVolume[1]))[2]) =>
        /\ res.err = Nil
        /\ AtOrBeneath(res.s,
                       Clean(Unix, LookupEnv(env, VolumeEnvName(SourceVolume[1]))[1]))

====
